---------------------------- MODULE Spec2Model ----------------------------
(***************************************************************************)
(* A model of CornerDetector (src/corner_detector.cpp): the constructor    *)
(* and detect(), with the three response metrics.                          *)
(*                                                                         *)
(* Numbers.  The image is a CV_32F field with integer-valued intensities.  *)
(* Every kernel tap is an integer numerator over KernelDen, so every field *)
(* of the pipeline is held as integer numerators over a fixed power of     *)
(* KernelDen: Ix, Iy over KernelDen, A, B, C over KernelDen^3.  A response *)
(* value is a pair <<n, d>>: the rational n/d when d > 0, NaN when         *)
(* n = d = 0, and -FLT_MAX (the accumulator minMaxLoc starts from) when    *)
(* n = -1, d = 0.  The Harris response is held in units of                 *)
(* 1/(AlphaDen * KernelDen^6), the harmonic mean in units of               *)
(* 1/KernelDen^3; a positive common unit changes neither the comparison    *)
(* with quality_level_ * max_val nor the comparison with local_max.        *)
(***************************************************************************)
EXTENDS Integers, Sequences, FiniteSets

(* -------- bounds of the model -------- *)
\* image width (columns)
W == 2
\* image height (rows)
H == 4
\* largest intensity of an input image
MaxVal == 1

(* -------- program constants -------- *)
\* alpha = 0.06f = AlphaNum / AlphaDen
AlphaNum == 3
AlphaDen == 50
\* keypoint_size = 3.0f * window_sigma_
SizeFactor == 3
\* common denominator of the kernel taps
KernelDen == 4

Pixels == (0 .. W - 1) \X (0 .. H - 1)

\* the arguments the constructor is called with
Metrics == {"harris", "harmonic_mean", "min_eigen"}
\* quality levels as <<numerator, denominator>>: 0, 1/4, 3/4, 1
QualityLevels == {<<0, 1>>, <<1, 4>>, <<3, 4>>, <<1, 1>>}
Sigmas == {0, 1}

\* What the build leaves open.  div_by_zero: cv::divide on CV_32F yields 0
\* for a zero divisor in OpenCV 3.x and the IEEE result (0/0 = NaN) in 4.x.
\* nan_max: a maximum taken over values that include NaN either skips the
\* NaN (x > acc is false) or returns it (a max that propagates NaN).
Builds ==
  {[div_by_zero |-> "zero", nan_max |-> "skip"],
   [div_by_zero |-> "nan", nan_max |-> "skip"],
   [div_by_zero |-> "nan", nan_max |-> "poison"]}

\* Only harmonicMeanMetric divides, and no other metric produces a NaN: the
\* detectors of the other metrics are explored under this one build.
PlainBuild == [div_by_zero |-> "zero", nan_max |-> "skip"]

(* -------- response values -------- *)
NaN == <<0, 0>>
NegFltMax == <<-1, 0>>
Zero == <<0, 1>>
IsNaN(v) == v = NaN
IsNumber(v) == v[2] > 0

\* a > b on floats: false when either side is NaN
FGt(a, b) ==
  IF IsNaN(a) \/ IsNaN(b) THEN FALSE
  ELSE IF b = NegFltMax THEN a # NegFltMax
  ELSE IF a = NegFltMax THEN FALSE
  ELSE a[1] * b[2] > b[1] * a[2]

\* a == b on floats: false when either side is NaN
FEq(a, b) ==
  IF IsNaN(a) \/ IsNaN(b) THEN FALSE
  ELSE IF a = NegFltMax \/ b = NegFltMax THEN a = b
  ELSE a[1] * b[2] = b[1] * a[2]

\* q * v for a quality level q >= 0
FMul(q, v) ==
  IF IsNaN(v) THEN NaN
  ELSE IF v = NegFltMax THEN (IF q[1] = 0 THEN Zero ELSE NegFltMax)
  ELSE <<q[1] * v[1], q[2] * v[2]>>

\* the largest of a non-empty set of numbers
MaxOf(S) == CHOOSE v \in S : \A u \in S : ~FGt(u, v)

\* a maximum as the build computes it, over values that may include NaN;
\* empty is the value of the accumulator when every value was skipped
BuildMax(S, build, empty) ==
  LET nums == {v \in S : ~IsNaN(v)}
  IN IF nums = S THEN MaxOf(S)
     ELSE IF build.nan_max = "poison" THEN NaN
     ELSE IF nums = {} THEN empty
     ELSE MaxOf(nums)

(* -------- input images -------- *)
\* a step corner: intensity fg in the quadrant x >= cx, y >= cy, bg elsewhere
\* (cx = cy = 0 is a uniformly flat image, cx = 0 or cy = 0 a straight edge)
QuadrantImage(bg, fg, cx, cy) ==
  [p \in Pixels |-> IF p[1] >= cx /\ p[2] >= cy THEN fg ELSE bg]

\* a short diagonal stroke: intensity fg at c and at its diagonal neighbour
\* c + d (where that lies inside the image), bg elsewhere
StrokeImage(bg, fg, c, d) ==
  [p \in Pixels |->
     IF p = c \/ p = <<c[1] + d[1], c[2] + d[2]>> THEN fg ELSE bg]

Images ==
  {QuadrantImage(bg, fg, c[1], c[2]) :
     bg \in 0 .. MaxVal, fg \in 0 .. MaxVal, c \in Pixels}
  \cup {StrokeImage(bg, fg, c, d) :
          bg \in 0 .. MaxVal, fg \in 0 .. MaxVal, c \in Pixels,
          d \in {<<1, 1>>, <<-1, 1>>}}

IsFlat(img) == \A p \in Pixels, r \in Pixels : img[p] = img[r]

(* -------- kernels -------- *)
\* the outcome of a call: it returns a value or throws a cv::Exception
Returned(v) == [thrown |-> FALSE, value |-> v]
Thrown == [thrown |-> TRUE]

\* a 1-D kernel is a column vector of taps (numerators over KernelDen); the
\* smoothing kernel sums to KernelDen (unit sum) and is symmetric
create1DGaussianKernel(sigma) ==
  IF sigma <= 0 THEN Thrown ELSE Returned(<<1, 2, 1>>)

\* the derivative kernel is antisymmetric and sums to zero
create1DDerivatedGaussianKernel(sigma) ==
  IF sigma <= 0 THEN Thrown ELSE Returned(<<1, 0, -1>>)

(* -------- cv:: operations -------- *)
\* a field held in a cv::Mat: its elements are computed once, when the Mat
\* is written, and not again at every read
Mat(f) == IF f = f THEN f ELSE f

\* BORDER_REFLECT_101 (the default border of filter2D) on an axis of n samples
Reflect101(i, n) == IF i < 0 THEN -i ELSE IF i >= n THEN 2 * n - 2 - i ELSE i

RECURSIVE Correlate(_, _, _, _)
\* sum over the taps k .. Len(kernel) of kernel[k] * src at the shifted row
Correlate(src, kernel, p, k) ==
  IF k > Len(kernel) THEN 0
  ELSE LET r == (Len(kernel) - 1) \div 2
           y == Reflect101(p[2] + k - 1 - r, H)
       IN kernel[k] * src[<<p[1], y>>] + Correlate(src, kernel, p, k + 1)

\* cv::filter2D(src, dst, -1, kernel): one correlation with the kernel as
\* given (a column vector, so along y), centre anchor, same size as src
filter2D(src, kernel) == [p \in Pixels |-> Correlate(src, kernel, p, 1)]

\* X.mul(Y): the per-element product
mul(X, Y) == [p \in Pixels |-> X[p] * Y[p]]

\* the 3x3 neighbourhood of p inside the image (cv::dilate with the default
\* structuring element ignores what lies outside the image)
Neighbourhood(p) ==
  {r \in Pixels : r[1] - p[1] \in {-1, 0, 1} /\ r[2] - p[2] \in {-1, 0, 1}}

(* -------- the response metrics -------- *)
\* harrisMetric without the final cv::max(response, 0.0)
harrisMetricUnclamped(A_, B_, C_) ==
  Returned([p \in Pixels |->
     LET det_M == A_[p] * C_[p] - B_[p] * B_[p]
         trace_M == A_[p] + C_[p]
     IN <<AlphaDen * det_M - AlphaNum * trace_M * trace_M, 1>>])

\* harrisMetric: det(M) - alpha * trace(M)^2, negative values set to zero
harrisMetric(A_, B_, C_) ==
  Returned([p \in Pixels |->
     LET det_M == A_[p] * C_[p] - B_[p] * B_[p]
         trace_M == A_[p] + C_[p]
         r == AlphaDen * det_M - AlphaNum * trace_M * trace_M
     IN <<IF r > 0 THEN r ELSE 0, 1>>])

\* harmonicMeanMetric: A.mul(C) / (A + C) with no guard on the divisor.  A
\* and C are windowed squares, so A + C = 0 only where A * C = 0: the
\* quotient there is 0/0
harmonicMeanMetric(A_, B_, C_, bld) ==
  Returned([p \in Pixels |->
     LET num == A_[p] * C_[p]
         den == A_[p] + C_[p]
     IN IF den # 0 THEN <<num, den>>
        ELSE IF bld.div_by_zero = "zero" THEN Zero
        ELSE NaN])

\* minEigenMetric: M.at<cv::Vec3f>(i) = A converts the whole field A to a
\* Vec3f, which asserts that A is a 1x3 or 3x1 vector, and cv::eigen asserts
\* a square single-channel matrix while M is CV_32FC3 of the image size: no
\* image passes both, so the call always throws
minEigenMetric(A_, B_, C_) == Thrown

(* -------- the maxima selector -------- *)
\* cv::dilate(response, local_max, cv::Mat())
dilate(resp, bld) ==
  [p \in Pixels |-> BuildMax({resp[r] : r \in Neighbourhood(p)}, bld, NaN)]

\* cv::minMaxLoc(response, nullptr, &max_val)
minMaxLoc(resp, bld) == BuildMax({resp[p] : p \in Pixels}, bld, NegFltMax)

\* a threshold that falls as the quality level rises: (1 - q) * max_val
ThresholdInverted(q, mx) == FMul(<<q[2] - q[1], q[2]>>, mx)

\* threshold = quality_level_ * max_val
Threshold(q, mx) == FMul(q, mx)

\* the selection with response >= threshold in place of response > threshold
IsWeakAndLocalMax(resp, lmax, thr) ==
  [p \in Pixels |->
     (FGt(resp[p], thr) \/ FEq(resp[p], thr)) /\ FEq(resp[p], lmax[p])]

\* (response > threshold) & (response == local_max)
IsStrongAndLocalMax(resp, lmax, thr) ==
  [p \in Pixels |-> FGt(resp[p], thr) /\ FEq(resp[p], lmax[p])]

\* the pixels in the order cv::findNonZero visits them (row by row)
TraversalOrder == [i \in 1 .. W * H |-> <<(i - 1) % W, (i - 1) \div W>>]

findNonZero(mask) == SelectSeq(TraversalOrder, LAMBDA p : mask[p])

\* cv::KeyPoint{point, keypoint_size, -1, response.at<float>(point)}
KeyPoints(locations, resp, wsigma) ==
  [i \in 1 .. Len(locations) |->
     [pt |-> locations[i], size |-> SizeFactor * wsigma, angle |-> -1,
      response |-> resp[locations[i]]]]

(* -------- state -------- *)
VARIABLES
  build,           \* what the build leaves open (see Builds)
  image,           \* the caller's image, passed to every call of detect
  constructed,     \* "none", "ok", or "error" (the constructor threw)
  metric_type_,
  quality_level_,
  window_sigma_,
  g_kernel_,
  dg_kernel_,
  win_kernel_,
  status,          \* of the last call of detect: "idle", "ok" or "error"
  repeated,        \* the last call of detect was not the detector's first
  Ix, Iy,          \* the fields of the last call of detect
  A, B, C,
  response,
  local_max,
  max_val,
  threshold,
  max_locations,
  key_points,      \* the sequence the last call returned
  prev             \* what the detector constructed before this one
                   \* returned for the same image: a set holding its
                   \* quality level and number of keypoints, or the empty set

config == <<metric_type_, quality_level_, window_sigma_>>
kernels == <<g_kernel_, dg_kernel_, win_kernel_>>
fields == <<Ix, Iy, A, B, C, response, local_max, max_val, threshold,
            max_locations>>
vars == <<build, image, constructed, config, kernels, status, repeated,
          fields, key_points, prev>>

None == "none"

Init ==
  /\ build \in Builds
  /\ image \in Images
  /\ constructed = "none"
  /\ metric_type_ = None /\ quality_level_ = None /\ window_sigma_ = None
  /\ g_kernel_ = None /\ dg_kernel_ = None /\ win_kernel_ = None
  /\ status = "idle" /\ repeated = FALSE
  /\ Ix = None /\ Iy = None /\ A = None /\ B = None /\ C = None
  /\ response = None /\ local_max = None /\ max_val = None
  /\ threshold = None /\ max_locations = <<>>
  /\ key_points = <<>>
  /\ prev = {}

\* no call of detect has been made on the (new) detector
NoCallYet ==
  /\ status' = "idle" /\ repeated' = FALSE
  /\ Ix' = None /\ Iy' = None /\ A' = None /\ B' = None /\ C' = None
  /\ response' = None /\ local_max' = None /\ max_val' = None
  /\ threshold' = None /\ max_locations' = <<>>
  /\ key_points' = <<>>

\* CornerDetector::CornerDetector(metric, do_visualize, quality_level,
\* gradient_sigma, window_sigma): stores its arguments and builds the three
\* kernels; it checks none of its arguments itself.  do_visualize_ only
\* selects the cv::imshow calls at the end of detect, which write nothing
\* that detect returns, and is left out of the state.
CornerDetector(metric, quality_level, gradient_sigma, window_sigma) ==
  LET g == create1DGaussianKernel(gradient_sigma)
      dg == create1DDerivatedGaussianKernel(gradient_sigma)
      win == create1DGaussianKernel(window_sigma)
  IN /\ IF g.thrown \/ dg.thrown \/ win.thrown
        THEN /\ constructed' = "error"
             /\ metric_type_' = None /\ quality_level_' = None
             /\ window_sigma_' = None
             /\ g_kernel_' = None /\ dg_kernel_' = None /\ win_kernel_' = None
        ELSE /\ constructed' = "ok"
             /\ metric_type_' = metric
             /\ quality_level_' = quality_level
             /\ window_sigma_' = window_sigma
             /\ g_kernel_' = g.value /\ dg_kernel_' = dg.value
             /\ win_kernel_' = win.value
     /\ NoCallYet
     /\ UNCHANGED <<build, image>>

\* the caller constructs its detector
Construct(metric, quality_level, gradient_sigma, window_sigma) ==
  /\ constructed # "ok"
  /\ metric = "harmonic_mean" \/ build = PlainBuild
  /\ CornerDetector(metric, quality_level, gradient_sigma, window_sigma)
  /\ prev' = {}

\* after a call of detect has returned, the caller constructs a second
\* detector that differs from the first in its quality level only
ConstructNext(quality_level, gradient_sigma) ==
  /\ status = "ok"
  /\ prev = {}
  /\ create1DGaussianKernel(gradient_sigma) = Returned(g_kernel_)
  /\ CornerDetector(metric_type_, quality_level, gradient_sigma, window_sigma_)
  /\ prev' = {[quality_level |-> quality_level_, count |-> Len(key_points)]}

\* a detect that filters in place: filter2D(image, image, -1, g_kernel_)
DetectFrameInPlace ==
  /\ image' = Ix'
  /\ UNCHANGED <<build, constructed, config, kernels, prev>>

\* detect is a const member and never writes through its image argument:
\* the detector and the caller's image are as they were before the call
DetectFrame == UNCHANGED <<build, image, constructed, config, kernels, prev>>

\* std::vector<cv::KeyPoint> CornerDetector::detect(cv::Mat image) const
Detect ==
  /\ constructed = "ok"
  /\ Ix' = Mat(filter2D(image, g_kernel_))
  /\ Iy' = Mat(filter2D(image, dg_kernel_))
  /\ A' = Mat(filter2D(Mat(mul(Ix', Ix')), win_kernel_))
  /\ B' = Mat(filter2D(Mat(mul(Ix', Iy')), win_kernel_))
  /\ C' = Mat(filter2D(Mat(mul(Iy', Iy')), win_kernel_))
  /\ LET metric == CASE metric_type_ = "harris" -> harrisMetric(A', B', C')
                     [] metric_type_ = "harmonic_mean" ->
                          harmonicMeanMetric(A', B', C', build)
                     [] metric_type_ = "min_eigen" -> minEigenMetric(A', B', C')
     IN IF metric.thrown
        THEN /\ status' = "error"
             /\ response' = None /\ local_max' = None /\ max_val' = None
             /\ threshold' = None /\ max_locations' = <<>>
             /\ key_points' = <<>>
        ELSE /\ status' = "ok"
             /\ response' = Mat(metric.value)
             /\ local_max' = Mat(dilate(response', build))
             /\ max_val' = minMaxLoc(response', build)
             /\ threshold' = Threshold(quality_level_, max_val')
             /\ max_locations' =
                  findNonZero(IsStrongAndLocalMax(response', local_max', threshold'))
             /\ key_points' = KeyPoints(max_locations', response', window_sigma_)
  /\ repeated' = (status # "idle")
  /\ DetectFrame

\* the caller calls detect once on each detector
DetectOnce == status = "idle" /\ Detect

\* one detector, called any number of times
Next ==
  \/ \E metric \in Metrics, quality_level \in QualityLevels,
        gradient_sigma \in Sigmas, window_sigma \in Sigmas :
       Construct(metric, quality_level, gradient_sigma, window_sigma)
  \/ Detect

Spec == Init /\ [][Next]_vars

\* two detectors in turn, for the same image
NextPair ==
  \/ \E metric \in Metrics, quality_level \in QualityLevels,
        gradient_sigma \in Sigmas, window_sigma \in Sigmas :
       Construct(metric, quality_level, gradient_sigma, window_sigma)
  \/ \E quality_level \in QualityLevels, gradient_sigma \in Sigmas :
       ConstructNext(quality_level, gradient_sigma)
  \/ DetectOnce

SpecPair == Init /\ [][NextPair]_vars

(* ======================= the claims ======================= *)
InUnitRange(q) == q[1] > 0 /\ q[1] <= q[2]
QLeq(q1, q2) == q1[1] * q2[2] <= q2[1] * q1[2]

\* C2: threshold monotonicity.  Of two detectors that differ only in their
\* quality level, both in (0,1], the one with the higher quality level never
\* returns more keypoints for the same image.
C2_Monotone ==
  \A e \in prev :
    (status = "ok" /\ InUnitRange(e.quality_level) /\ InUnitRange(quality_level_))
    => /\ QLeq(e.quality_level, quality_level_) => Len(key_points) <= e.count
       /\ QLeq(quality_level_, e.quality_level) => e.count <= Len(key_points)

\* a detector of quality level 3/4 has returned fewer keypoints (and at
\* least one) than the detector of quality level 1/4 before it
C2_Witness ==
  /\ status = "ok"
  /\ quality_level_ = <<3, 4>>
  /\ \E e \in prev :
       e.quality_level = <<1, 4>> /\ Len(key_points) < e.count
  /\ Len(key_points) > 0

\* C9: with the harris metric the response at every pixel is
\* max(A*C - B^2 - 0.06*(A+C)^2, 0), so the response is nowhere negative.
C9_HarrisClamped ==
  (status = "ok" /\ metric_type_ = "harris")
  => \A p \in Pixels :
       LET r == AlphaDen * (A[p] * C[p] - B[p] * B[p])
                  - AlphaNum * (A[p] + C[p]) * (A[p] + C[p])
       IN /\ response[p] = <<IF r > 0 THEN r ELSE 0, 1>>
          /\ response[p][1] >= 0

\* a Harris response field with a positive pixel and a pixel whose
\* unclamped value is negative
C9_Witness ==
  /\ status = "ok" /\ metric_type_ = "harris"
  /\ \E p \in Pixels : response[p][1] > 0
  /\ \E p \in Pixels :
       AlphaDen * (A[p] * C[p] - B[p] * B[p])
         - AlphaNum * (A[p] + C[p]) * (A[p] + C[p]) < 0

C1_ExactlyStrongLocalMaxima ==
  status = "ok" =>
    LET defined == {p \in Pixels : ~IsNaN(response[p])}
        global_max == MaxOf({response[p] : p \in defined})
        expected ==
          IF defined = {} THEN {}
          ELSE {p \in defined :
                  /\ FGt(response[p], FMul(quality_level_, global_max))
                  /\ \A r \in Neighbourhood(p) \cap defined :
                       ~FGt(response[r], response[p])}
    IN /\ {key_points[i].pt : i \in 1 .. Len(key_points)} = expected
       /\ Len(key_points) = Cardinality(expected)

\* C3: for a uniformly flat image every metric yields a response of zero at
\* every pixel and detect returns no keypoint for any quality level > 0.
C3_FlatImageNoResponse ==
  (IsFlat(image) /\ status # "idle") =>
    /\ status = "ok"
    /\ \A p \in Pixels : FEq(response[p], Zero)
    /\ quality_level_[1] > 0 => key_points = <<>>

\* C4: the harmonic-mean response is 0 at every pixel where A + C = 0, and
\* no NaN appears in the response field, in the global maximum or in the
\* response of a returned keypoint.
C4_HarmonicMeanSafe ==
  (status = "ok" /\ metric_type_ = "harmonic_mean") =>
    /\ \A p \in Pixels :
         /\ A[p] + C[p] = 0 => response[p] = Zero
         /\ ~IsNaN(response[p])
    /\ ~IsNaN(max_val)
    /\ \A i \in 1 .. Len(key_points) : ~IsNaN(key_points[i].response)

\* C5: no detector is constructed from a non-positive sigma or from a
\* quality level outside (0,1].
C5_ConfigurationChecked ==
  constructed = "ok" =>
    /\ window_sigma_ > 0
    /\ g_kernel_ # <<>> /\ dg_kernel_ # <<>> /\ win_kernel_ # <<>>
    /\ InUnitRange(quality_level_)

\* C6: a call of detect changes neither the detector's configuration, nor
\* its kernels, nor the caller's image, and a call that follows an earlier
\* call on the same image returns what that call returned.
C6_Idempotent ==
  [][status' # "idle" =>
       /\ image' = image
       /\ constructed' = constructed
       /\ config' = config
       /\ kernels' = kernels
       /\ status # "idle" => (status' = status /\ key_points' = key_points)]_vars

\* detect has been called a second time and has returned keypoints
C6_Witness == status = "ok" /\ repeated /\ Len(key_points) > 0

\* lambda = n/d is the smaller eigenvalue of [[a, b], [b, c]]: a root of
\* lambda^2 - (a + c) * lambda + (a * c - b^2) that is at most (a + c)/2
IsMinEigenvalue(v, a, b, c) ==
  /\ IsNumber(v)
  /\ v[1] * v[1] - (a + c) * v[1] * v[2] + (a * c - b * b) * v[2] * v[2] = 0
  /\ 2 * v[1] <= (a + c) * v[2]

\* C7: with the min_eigen metric detect computes a response for every pixel
\* of the image, the smaller eigenvalue of [[A, B], [B, C]] at that pixel.
C7_MinEigenResponse ==
  (metric_type_ = "min_eigen" /\ status # "idle") =>
    /\ status = "ok"
    /\ DOMAIN response = Pixels
    /\ \A p \in Pixels : IsMinEigenvalue(response[p], A[p], B[p], C[p])

RECURSIVE CorrelateX(_, _, _, _)
\* the correlation of Correlate, along x
CorrelateX(src, kernel, p, k) ==
  IF k > Len(kernel) THEN 0
  ELSE LET r == (Len(kernel) - 1) \div 2
           x == Reflect101(p[1] + k - 1 - r, W)
       IN kernel[k] * src[<<x, p[2]>>] + CorrelateX(src, kernel, p, k + 1)

\* a separable filter: kernelX along x, then kernelY along y
Separable(src, kernelX, kernelY) ==
  filter2D([p \in Pixels |-> CorrelateX(src, kernelX, p, 1)], kernelY)

\* C8: Ix is the image filtered with g along one axis and dg along the
\* other, Iy the same with the axes swapped (Ix and Iy are numerators over
\* KernelDen, the separable fields numerators over KernelDen^2).
C8_SeparableGradients ==
  status # "idle" =>
    LET dg_x == Separable(image, dg_kernel_, g_kernel_)
        dg_y == Separable(image, g_kernel_, dg_kernel_)
    IN /\ DOMAIN Ix = Pixels /\ DOMAIN Iy = Pixels
       /\ \/ \A p \in Pixels :
               KernelDen * Ix[p] = dg_x[p] /\ KernelDen * Iy[p] = dg_y[p]
          \/ \A p \in Pixels :
               KernelDen * Ix[p] = dg_y[p] /\ KernelDen * Iy[p] = dg_x[p]

=============================================================================
